---- MODULE Spec2Model ----
(***************************************************************************)
(* Huffman coding program (Theory Assignment 03/Assignment.cpp):           *)
(* FrequencyTable (linked list), PriorityQueue (binary min-heap over       *)
(* HuffmanNode pointers), HuffmanTree (buildTree, generateCodes, encode,   *)
(* decode) and the menu loop of main.                                      *)
(*                                                                         *)
(* Strings are sequences of one-character strings.  HuffmanNode objects    *)
(* live in the store `nodes` (a sequence); a pointer is an index into it   *)
(* and nullptr is 0.  The linked list of the FrequencyTable is a sequence  *)
(* of [Character, freq] records, head = nullptr being the empty sequence.  *)
(* An unordered_map<char,string> is a function whose DOMAIN is its key set.*)
(***************************************************************************)
EXTENDS Integers, Sequences, FiniteSets, TLC

\* ------------------------------------------------------------- bounds
MaxLen == 4
MaxBits == 2
MaxPush == 6
MaxFreq == 2
MaxRuns == 2
MaxChoiceLen == 2

Symbols == {"a", "b", "c"}
PQSymbols == {"a"}
BitChars == {"0", "1", "x"}
ChoiceChars == {"1", "2", "x"}

SeqsUpTo(S, n) == UNION {[1..k -> S] : k \in 0..n}

Strings == SeqsUpTo(Symbols, MaxLen)
BitStrings == SeqsUpTo(BitChars, MaxBits)
ChoiceLines == SeqsUpTo(ChoiceChars, MaxChoiceLen)

nullptr == 0
NUL == "NUL"
EmptyMap == [c \in {} |-> <<>>]

\* ------------------------------------------------------ FrequencyTable
Node(C, f) == [Character |-> C, freq |-> f]

\* The loop body putting a new node at the head of the list instead of
\* at its end.
CountCharAtHead(list, Character) ==
    LET hits == {i \in 1..Len(list) : list[i].Character = Character}
    IN  IF hits # {}
        THEN LET i == CHOOSE j \in hits : \A k \in hits : j <= k
             IN  [list EXCEPT ![i].freq = list[i].freq + 1]
        ELSE <<Node(Character, 1)>> \o list

\* The body of the for loop of MakeTable for one character: the first node
\* holding the character is incremented, else a new node is appended.
CountChar(list, Character) ==
    LET hits == {i \in 1..Len(list) : list[i].Character = Character}
    IN  IF hits # {}
        THEN LET i == CHOOSE j \in hits : \A k \in hits : j <= k
             IN  [list EXCEPT ![i].freq = list[i].freq + 1]
        ELSE Append(list, Node(Character, 1))

RECURSIVE ScanString(_, _, _)
ScanString(list, s, i) ==
    IF i > Len(s) THEN list
    ELSE ScanString(CountChar(list, s[i]), s, i + 1)

MsgNone == "none"
MsgEmpty == "Error! Huffman String is Empty!"
MsgPopulated == "Table is already populated!"

\* FrequencyTable::MakeTable: returns the new list and the message printed.
MakeTable(head, huffmanString) ==
    IF head = <<>>
    THEN IF huffmanString = <<>>
         THEN [head |-> head, msg |-> MsgEmpty]
         ELSE [head |-> ScanString(head, huffmanString, 1), msg |-> MsgNone]
    ELSE [head |-> head, msg |-> MsgPopulated]

\* --------------------------------------------------------- HuffmanNode
HuffmanNode(C, f) == [Character |-> C, freq |-> f, left |-> nullptr, right |-> nullptr]

IsLeaf(st, n) == st[n].left = nullptr /\ st[n].right = nullptr

\* ------------------------------------------------------- PriorityQueue
\* queue[index] with the 0-based indices of the code.
At(q, index) == q[index + 1]
Swap(q, i, j) == [q EXCEPT ![i + 1] = q[j + 1], ![j + 1] = q[i + 1]]

\* heapifyUp sifting up on <= instead of <.
RECURSIVE heapifyUpNonStrict(_, _, _)
heapifyUpNonStrict(st, q, index) ==
    IF index > 0
    THEN LET parent == (index - 1) \div 2
         IN  IF st[At(q, index)].freq <= st[At(q, parent)].freq
             THEN heapifyUpNonStrict(st, Swap(q, index, parent), parent)
             ELSE q
    ELSE q

RECURSIVE heapifyUp(_, _, _)
heapifyUp(st, q, index) ==
    IF index > 0
    THEN LET parent == (index - 1) \div 2
         IN  IF st[At(q, index)].freq < st[At(q, parent)].freq
             THEN heapifyUp(st, Swap(q, index, parent), parent)
             ELSE q
    ELSE q

\* heapifyDown that never looks at the right child.
RECURSIVE heapifyDownLeftOnly(_, _, _)
heapifyDownLeftOnly(st, q, index) ==
    LET left == 2 * index + 1
        smallest == IF left < Len(q) /\ st[At(q, left)].freq < st[At(q, index)].freq
                    THEN left ELSE index
    IN  IF smallest # index
        THEN heapifyDownLeftOnly(st, Swap(q, index, smallest), smallest)
        ELSE q

RECURSIVE heapifyDown(_, _, _)
heapifyDown(st, q, index) ==
    LET left == 2 * index + 1
        right == 2 * index + 2
        s1 == IF left < Len(q) /\ st[At(q, left)].freq < st[At(q, index)].freq
              THEN left ELSE index
        smallest == IF right < Len(q) /\ st[At(q, right)].freq < st[At(q, s1)].freq
                    THEN right ELSE s1
    IN  IF smallest # index
        THEN heapifyDown(st, Swap(q, index, smallest), smallest)
        ELSE q

push(st, q, node) == heapifyUp(st, Append(q, node), Len(q))

pop(st, q) ==
    IF q = <<>>
    THEN [queue |-> q, ret |-> nullptr]
    ELSE LET moved == [q EXCEPT ![1] = q[Len(q)]]
             shorter == SubSeq(moved, 1, Len(q) - 1)
         IN  [queue |-> heapifyDown(st, shorter, 0), ret |-> q[1]]

\* --------------------------------------------------------- HuffmanTree
\* First loop of buildTree: one new leaf per list node, pushed in list order.
RECURSIVE PushLeaves(_, _, _, _)
PushLeaves(st, pq, table, i) ==
    IF i > Len(table) THEN [nodes |-> st, queue |-> pq]
    ELSE LET st1 == Append(st, HuffmanNode(table[i].Character, table[i].freq))
         IN  PushLeaves(st1, push(st1, pq, Len(st1)), table, i + 1)

\* A merged node that takes only its left child's freq.
MergedFreqLeft(l, r) == l

\* The freq of the merged node.
MergedFreq(l, r) == l + r

\* Second loop of buildTree: merge the two nodes popped first.
RECURSIVE MergeLoop(_, _)
MergeLoop(st, pq) ==
    IF Len(pq) > 1
    THEN LET p1 == pop(st, pq)
             p2 == pop(st, p1.queue)
             left == p1.ret
             right == p2.ret
             merged == [Character |-> NUL,
                        freq |-> MergedFreq(st[left].freq, st[right].freq),
                        left |-> left, right |-> right]
             st1 == Append(st, merged)
         IN  MergeLoop(st1, push(st1, p2.queue, Len(st1)))
    ELSE [nodes |-> st, queue |-> pq]

buildTree(st, table) ==
    LET filled == PushLeaves(st, <<>>, table, 1)
        merged == MergeLoop(filled.nodes, filled.queue)
    IN  [nodes |-> merged.nodes, root |-> pop(merged.nodes, merged.queue).ret]

\* codes[key] = value on an unordered_map.
Put(codes, key, value) ==
    [k \in DOMAIN codes \cup {key} |-> IF k = key THEN value ELSE codes[k]]

\* A right subtree handed the code of its parent, with no bit added.
RightCodeSame(code) == code

\* The code handed to the right subtree.
RightCode(code) == Append(code, "1")

RECURSIVE buildCodes(_, _, _, _)
buildCodes(st, node, code, codes) ==
    IF node = nullptr THEN codes
    ELSE LET c1 == IF IsLeaf(st, node) THEN Put(codes, st[node].Character, code)
                   ELSE codes
             c2 == buildCodes(st, st[node].left, Append(code, "0"), c1)
         IN  buildCodes(st, st[node].right, RightCode(code), c2)

generateCodes(st, root) == buildCodes(st, root, <<>>, EmptyMap)

\* codes[c] of encodeString: operator[] default-inserts "" for a missing key.
Lookup(codes, c) ==
    IF c \in DOMAIN codes THEN [codes |-> codes, value |-> codes[c]]
    ELSE [codes |-> Put(codes, c, <<>>), value |-> <<>>]

RECURSIVE encodeString(_, _, _, _)
encodeString(input, codes, encodedString, i) ==
    IF i > Len(input) THEN [encodedString |-> encodedString, codes |-> codes]
    ELSE LET l == Lookup(codes, input[i])
         IN  encodeString(input, l.codes, encodedString \o l.value, i + 1)

\* encode: encodedString.clear(), encodeString, return encodedString.
encode(input, codes) == encodeString(input, codes, <<>>, 1)

\* The loop of decode.  ub: a null pointer was dereferenced (current->left on
\* a null current, or the leaf test on a null child).  current is the cursor
\* when the loop ended.
RECURSIVE DecodeLoop(_, _, _, _, _, _)
DecodeLoop(st, root, current, encoded, i, decoded) ==
    IF i > Len(encoded)
    THEN [ub |-> FALSE, decoded |-> decoded, current |-> current]
    ELSE IF current = nullptr
    THEN [ub |-> TRUE, decoded |-> decoded, current |-> current]
    ELSE LET nxt == IF encoded[i] = "0" THEN st[current].left ELSE st[current].right
         IN  IF nxt = nullptr
             THEN [ub |-> TRUE, decoded |-> decoded, current |-> nxt]
             ELSE IF IsLeaf(st, nxt)
             THEN DecodeLoop(st, root, root, encoded, i + 1,
                             Append(decoded, st[nxt].Character))
             ELSE DecodeLoop(st, root, nxt, encoded, i + 1, decoded)

decode(st, root, encoded) == DecodeLoop(st, root, root, encoded, 1, <<>>)


\* --------------------------------------------------------------- state
VARIABLES
    huffmanString,  \* FrequencyTable::huffmanString
    head,           \* FrequencyTable::head, the linked list
    msg,            \* the message MakeTable printed last
    nodes,          \* the HuffmanNode objects allocated with new
    root,           \* HuffmanTree::root
    encodedString,  \* HuffmanTree::encodedString
    myString,       \* the caller's input string
    codes,          \* the caller's code table
    encoded,        \* the caller's encoded string
    decoded,        \* the caller's decoded string
    cursor,         \* decode's local `current` when its loop ended
    pc,             \* the caller's position
    choice,         \* main's `int choice`
    builds,         \* number of buildTree calls so far
    queue,          \* PriorityQueue::queue of a queue used on its own
    ret,            \* what the last pop returned
    op,             \* the operation called last
    calls,          \* the operations called so far, each with its last argument
    outcome         \* how the last call ended: "returned" or "crash"

vars == <<huffmanString, head, msg, nodes, root, encodedString, myString, codes,
          encoded, decoded, cursor, pc, choice, builds, queue, ret, op, calls, outcome>>

\* `int choice;` of main is not initialised.
Uninit == -1

\* The objects as constructed: FrequencyTable(), HuffmanTree(), empty locals.
Constructed ==
    /\ huffmanString = <<>> /\ head = <<>> /\ msg = MsgNone
    /\ nodes = <<>> /\ root = nullptr /\ encodedString = <<>>
    /\ codes = EmptyMap /\ encoded = <<>> /\ decoded = <<>>
    /\ cursor = nullptr /\ choice = Uninit /\ builds = 0
    /\ queue = <<>> /\ ret = nullptr
    /\ op = "none" /\ calls = EmptyMap /\ outcome = "none"

\* ------------------------------------------- the operations on the state
\* The call of operation o with argument a is noted.
Called(o, a) ==
    /\ op' = o
    /\ calls' = [k \in DOMAIN calls \cup {o} |-> IF k = o THEN a ELSE calls[k]]

\* table.sethuffmanString(s); table.MakeTable();
DoMakeTable(s) ==
    LET r == MakeTable(head, s)
    IN  /\ huffmanString' = s
        /\ head' = r.head
        /\ msg' = r.msg
        /\ Called("MakeTable", s) /\ outcome' = "returned"

\* hTree.buildTree(table);
DoBuildTree ==
    LET r == buildTree(nodes, head)
    IN  /\ nodes' = r.nodes
        /\ root' = r.root
        /\ builds' = builds + 1
        /\ Called("buildTree", <<>>) /\ outcome' = "returned"

\* codes = hTree.generateCodes();
DoGenerateCodes ==
    /\ codes' = generateCodes(nodes, root)
    /\ Called("generateCodes", <<>>) /\ outcome' = "returned"

\* encoded = hTree.encode(input, codes);
DoEncode(input) ==
    LET r == encode(input, codes)
    IN  /\ encodedString' = r.encodedString
        /\ codes' = r.codes
        /\ encoded' = r.encodedString
        /\ Called("encode", input) /\ outcome' = "returned"

\* What a null dereference in decode can end in: the process is killed, or
\* the call returns some string.
UBStrings == SeqsUpTo(Symbols, 1)
UBOutcomes == {[outcome |-> "crash", decoded |-> <<>>]}
              \cup {[outcome |-> "returned", decoded |-> s] : s \in UBStrings}

\* decoded = hTree.decode(bits);  next: the caller's position after the call.
DoDecode(bits, next) ==
    LET r == decode(nodes, root, bits)
    IN  /\ cursor' = r.current
        /\ Called("decode", bits)
        /\ IF r.ub
           THEN \E o \in UBOutcomes :
                  /\ outcome' = o.outcome
                  /\ decoded' = (IF o.outcome = "crash" THEN decoded ELSE o.decoded)
                  /\ pc' = (IF o.outcome = "crash" THEN "crashed" ELSE next)
           ELSE /\ outcome' = "returned"
                /\ decoded' = r.decoded
                /\ pc' = next

\* ------------------------------------- Spec: the five operations, called
\* A caller holding one FrequencyTable, one HuffmanTree and an input string
\* calls the operations in the order of main (MakeTable, buildTree,
\* generateCodes, encode, decode), each at most once; it may leave
\* operations out.
Rank(o) ==
    CASE o = "none" -> 0
      [] o = "MakeTable" -> 1
      [] o = "buildTree" -> 2
      [] o = "generateCodes" -> 3
      [] o = "encode" -> 4
      [] o = "decode" -> 5

MayCall(o) == pc = "ready" /\ Rank(op) < Rank(o)

Init ==
    /\ Constructed
    /\ myString \in Strings
    /\ pc = "ready"

CallMakeTable ==
    /\ MayCall("MakeTable")
    /\ DoMakeTable(myString)
    /\ UNCHANGED <<nodes, root, builds, encodedString, myString, codes, encoded,
                   decoded, cursor, pc, choice, queue, ret>>

CallBuildTree ==
    /\ MayCall("buildTree")
    /\ DoBuildTree
    /\ UNCHANGED <<huffmanString, head, msg, encodedString, myString, codes,
                   encoded, decoded, cursor, pc, choice, queue, ret>>

CallGenerateCodes ==
    /\ MayCall("generateCodes")
    /\ DoGenerateCodes
    /\ UNCHANGED <<huffmanString, head, msg, nodes, root, builds, encodedString,
                   myString, encoded, decoded, cursor, pc, choice, queue, ret>>

\* The strings the caller encodes: its input, or a one-symbol string.
EncodeInputs == {myString} \cup {<<c>> : c \in Symbols}

CallEncode ==
    /\ MayCall("encode")
    /\ \E input \in EncodeInputs : DoEncode(input)
    /\ UNCHANGED <<huffmanString, head, msg, nodes, root, builds, myString,
                   decoded, cursor, pc, choice, queue, ret>>

\* The strings the caller decodes: the encoded string, the encoded string
\* with one more character, or any short string.
DecodeInputs == {encoded} \cup {Append(encoded, b) : b \in BitChars} \cup BitStrings

CallDecode ==
    /\ MayCall("decode")
    /\ \E bits \in DecodeInputs : DoDecode(bits, "ready")
    /\ UNCHANGED <<huffmanString, head, msg, nodes, root, builds, encodedString,
                   myString, codes, encoded, choice, queue, ret>>

Next ==
    \/ CallMakeTable
    \/ CallBuildTree
    \/ CallGenerateCodes
    \/ CallEncode
    \/ CallDecode

Spec == Init /\ [][Next]_vars

\* ------------------------------------- SpecPQ: a PriorityQueue on its own
InitPQ ==
    /\ Constructed
    /\ myString = <<>>
    /\ pc = "pq"

\* pq.push(new HuffmanNode(C, f));
Push ==
    /\ pc = "pq"
    /\ Len(nodes) < MaxPush
    /\ \E C \in PQSymbols, f \in 1..MaxFreq :
         LET st == Append(nodes, HuffmanNode(C, f))
         IN  /\ nodes' = st
             /\ queue' = push(st, queue, Len(st))
    /\ ret' = nullptr
    /\ Called("push", <<>>) /\ outcome' = "returned"
    /\ UNCHANGED <<huffmanString, head, msg, root, builds, encodedString, myString,
                   codes, encoded, decoded, cursor, pc, choice>>

\* ret = pq.pop();
Pop ==
    /\ pc = "pq"
    /\ LET r == pop(nodes, queue)
       IN  /\ queue' = r.queue
           /\ ret' = r.ret
    /\ Called("pop", <<>>) /\ outcome' = "returned"
    /\ UNCHANGED <<huffmanString, head, msg, nodes, root, builds, encodedString,
                   myString, codes, encoded, decoded, cursor, pc, choice>>

NextPQ ==
    \/ Push
    \/ Pop

SpecPQ == InitPQ /\ [][NextPQ]_vars

\* ------------------------------------------------ SpecMain: the menu loop
Digits == {"1", "2"}

\* The digits `ss >> num` reads from the front of the line.
RECURSIVE DigitPrefix(_)
DigitPrefix(line) ==
    IF line # <<>> /\ Head(line) \in Digits
    THEN <<Head(line)>> \o DigitPrefix(Tail(line))
    ELSE <<>>

DigitValue(d) == IF d = "1" THEN 1 ELSE 2

RECURSIVE ParseNum(_, _)
ParseNum(ds, acc) ==
    IF ds = <<>> THEN acc
    ELSE ParseNum(Tail(ds), 10 * acc + DigitValue(Head(ds)))

\* stringstream(line) >> num: fail when no digit was read, eof when the read
\* ran into the end of the line.
Extract(line) ==
    LET ds == DigitPrefix(line)
    IN  [fail |-> ds = <<>>,
         eof |-> Len(ds) = Len(line),
         num |-> ParseNum(ds, 0)]

isValidChoice(line) ==
    LET ss == Extract(line)
    IN  ~ss.fail /\ ss.eof /\ (ss.num = 1 \/ ss.num = 2)

InitMain ==
    /\ Constructed
    /\ myString = <<>>
    /\ pc = "menu"

coreVars == <<huffmanString, head, msg, nodes, root, builds, encodedString,
              myString, codes, encoded, decoded, cursor, op, calls, outcome>>

\* getline(cin, inputChoice) with a valid line "1": case 1 is entered.
MenuEncode ==
    /\ pc = "menu"
    /\ builds < MaxRuns
    /\ \E line \in ChoiceLines :
         /\ isValidChoice(line)
         /\ Extract(line).num = 1
         /\ choice' = Extract(line).num
    /\ pc' = "step1"
    /\ UNCHANGED <<coreVars, queue, ret>>

\* A valid line "2": case 2, and the loop ends since choice = 2.
MenuExit ==
    /\ pc = "menu"
    /\ \E line \in ChoiceLines :
         /\ isValidChoice(line)
         /\ Extract(line).num = 2
         /\ choice' = Extract(line).num
    /\ pc' = "exit"
    /\ UNCHANGED <<coreVars, queue, ret>>

\* An invalid line: choice is not assigned and the loop condition
\* choice != 2 is evaluated; while choice is uninitialised the read has
\* any value, so the loop goes on or ends.
MenuInvalid ==
    /\ pc = "menu"
    /\ \E line \in ChoiceLines : ~isValidChoice(line)
    /\ IF choice = Uninit
       THEN pc' \in {"menu", "exit"}
       ELSE pc' = (IF choice # 2 THEN "menu" ELSE "exit")
    /\ UNCHANGED <<coreVars, choice, queue, ret>>

\* getline(cin, myString); table.sethuffmanString(myString); table.MakeTable();
Step1 ==
    /\ pc = "step1"
    /\ \E s \in Strings :
         /\ myString' = s
         /\ DoMakeTable(s)
    /\ pc' = "step2"
    /\ UNCHANGED <<nodes, root, builds, encodedString, codes, encoded, decoded,
                   cursor, choice, queue, ret>>

Step2Build ==
    /\ pc = "step2"
    /\ DoBuildTree
    /\ pc' = "step2codes"
    /\ UNCHANGED <<huffmanString, head, msg, encodedString, myString, codes,
                   encoded, decoded, cursor, choice, queue, ret>>

Step2Codes ==
    /\ pc = "step2codes"
    /\ DoGenerateCodes
    /\ pc' = "step3"
    /\ UNCHANGED <<huffmanString, head, msg, nodes, root, builds, encodedString,
                   myString, encoded, decoded, cursor, choice, queue, ret>>

Step3 ==
    /\ pc = "step3"
    /\ DoEncode(myString)
    /\ pc' = "step4"
    /\ UNCHANGED <<huffmanString, head, msg, nodes, root, builds, myString,
                   decoded, cursor, choice, queue, ret>>

Step4 ==
    /\ pc = "step4"
    /\ DoDecode(encoded, "step5")
    /\ UNCHANGED <<huffmanString, head, msg, nodes, root, builds, encodedString,
                   myString, codes, encoded, choice, queue, ret>>

\* The comparison and the size report; then the menu again (choice = 1).
Step5 ==
    /\ pc = "step5"
    /\ pc' = "menu"
    /\ UNCHANGED <<coreVars, choice, queue, ret>>

NextMain ==
    \/ MenuEncode
    \/ MenuExit
    \/ MenuInvalid
    \/ Step1
    \/ Step2Build
    \/ Step2Codes
    \/ Step3
    \/ Step4
    \/ Step5

SpecMain == InitMain /\ [][NextMain]_vars

\* ---------------------------------------------------------- properties
Range(s) == {s[i] : i \in 1..Len(s)}

IsProperPrefix(u, v) == Len(u) < Len(v) /\ SubSeq(v, 1, Len(u)) = u

RECURSIVE SumCounts(_)
SumCounts(list) == IF list = <<>> THEN 0 ELSE Head(list).freq + SumCounts(Tail(list))

\* The table was made from myString and the tree was built from the table.
TreeOfInput == myString # <<>> /\ head # <<>> /\ root # nullptr

\* ... and the code table is the one generateCodes returns for that tree.
CodesOfInput == TreeOfInput /\ codes = generateCodes(nodes, root)

\* ... and the encoded string is what encode returns for myString.
StreamOfInput == CodesOfInput /\ encoded = encode(myString, codes).encodedString

\* The five operations were called, encode on myString and decode, last, on
\* the encoded string.
Pipeline == {"MakeTable", "buildTree", "generateCodes", "encode", "decode"}

RoundTripDone ==
    /\ DOMAIN calls = Pipeline
    /\ StreamOfInput
    /\ calls["encode"] = myString
    /\ op = "decode" /\ calls["decode"] = encoded

\* C1: round trip.  For every non-empty input, MakeTable, buildTree,
\* generateCodes, encode and then decode of the encoded string with the same
\* tree returns the input.
C1_RoundTrip ==
    RoundTripDone => (outcome = "returned" /\ decoded = myString)

\* C2: singleton alphabet.  For an input of one distinct symbol repeated n
\* times the tree is a single leaf, the symbol's code is not empty, the encoded
\* string has n characters and decode returns the input.
C2_Singleton ==
    (RoundTripDone /\ Len(head) = 1) =>
        /\ IsLeaf(nodes, root)
        /\ DOMAIN codes = {head[1].Character}
        /\ codes[head[1].Character] # <<>>
        /\ Len(encoded) = Len(myString)
        /\ decoded = myString

\* C3: prefix-free.  In the code table generateCodes returns, no symbol's
\* code is a proper prefix of another symbol's code.
C3_PrefixFree ==
    op = "generateCodes" =>
        \A c1 \in DOMAIN codes : \A c2 \in DOMAIN codes :
            c1 # c2 => ~IsProperPrefix(codes[c1], codes[c2])

C3_Witness ==
    /\ op = "generateCodes"
    /\ TreeOfInput
    /\ Cardinality(DOMAIN codes) = 3
    /\ \E c1 \in DOMAIN codes : \E c2 \in DOMAIN codes : Len(codes[c1]) < Len(codes[c2])

\* C4: weight conservation.  In the tree buildTree produces every internal
\* node's freq is the sum of its children's freq, and the root's freq is the
\* sum of the counts of the frequency table, which is the length of the input.
C4_WeightConservation ==
    /\ \A n \in 1..Len(nodes) :
         ~IsLeaf(nodes, n) =>
            /\ nodes[n].left # nullptr /\ nodes[n].right # nullptr
            /\ nodes[n].freq = nodes[nodes[n].left].freq + nodes[nodes[n].right].freq
    /\ root # nullptr =>
         /\ nodes[root].freq = SumCounts(head)
         /\ nodes[root].freq = Len(huffmanString)

C4_Witness ==
    /\ op = "buildTree"
    /\ root # nullptr
    /\ ~IsLeaf(nodes, root)
    /\ ~IsLeaf(nodes, nodes[root].right)
    /\ nodes[root].freq = 4

\* ------------------------------------------------ PriorityQueue properties
Freq(n) == nodes[n].freq

HeapOrder ==
    \A index \in 1..(Len(queue) - 1) :
        Freq(At(queue, (index - 1) \div 2)) <= Freq(At(queue, index))

PopReturnsMin ==
    (op = "pop" /\ ret # nullptr) =>
        \A i \in 1..Len(queue) : Freq(ret) <= Freq(queue[i])

PopKeepsRest ==
    (op' = "pop" /\ queue # <<>>) =>
        /\ ret' # nullptr
        /\ Len(queue') = Len(queue) - 1
        /\ Cardinality(Range(queue')) = Len(queue')
        /\ Range(queue') \cup {ret'} = Range(queue)

\* C5: extract-min.  After any pushes and pops the heap order
\* parent.freq <= child.freq holds at every index; a pop on a non-empty
\* queue returns an element whose freq is at most that of every element left,
\* and removes exactly that element (the elements are distinct pointers, so
\* the set of the rest with the returned one is the set before).
C5_ExtractMin ==
    /\ [](HeapOrder /\ PopReturnsMin)
    /\ [][PopKeepsRest]_vars

C5_Witness ==
    /\ op = "pop"
    /\ ret # nullptr
    /\ Len(queue) >= 4
    /\ \E i \in 1..Len(queue) : Freq(ret) < Freq(queue[i])

\* Nodes are pushed in the order they are allocated: a smaller index was
\* pushed earlier.
PushedEarlier(m, n) == m < n

C7_IncompleteCodeword ==
    /\ (op = "decode" /\ ~decode(nodes, root, calls["decode"]).ub /\ cursor # root)
           => outcome = "IncompleteCodeword"
    /\ (op = "decode" /\ StreamOfInput /\ calls["decode"] = Append(encoded, "0"))
           => outcome = "IncompleteCodeword"

\* C8: empty input.  MakeTable on the empty string is an error to the
\* caller, which does not go on to build a tree, generate codes, encode or
\* decode from it.
C8_EmptyInputStops ==
    myString = <<>> => pc \notin {"step2codes", "step3", "step4", "step5"}

\* C9: tree not built.  generateCodes or decode with an absent root fails
\* with TreeNotBuilt: it does not return a code table or a decoded string.
C9_TreeNotBuilt ==
    (op \in {"generateCodes", "decode"} /\ root = nullptr)
        => outcome = "TreeNotBuilt"

\* C10: symbol not in code table.  encode of an input holding a symbol with
\* no entry in codes fails with SymbolNotInCodeTable and leaves the code
\* table as it was.
C10_SymbolNotInCodeTable ==
    [][(op' = "encode" /\ \E c \in Range(calls'["encode"]) : c \notin DOMAIN codes)
          => (outcome' = "SymbolNotInCodeTable" /\ codes' = codes)]_vars

\* C11: invalid bit.  decode of a string holding a character that is
\* neither '0' nor '1' (on a built tree, no null pointer having been
\* followed) fails with InvalidBit: the character is not taken for a move to
\* a child.
C11_InvalidBit ==
    (/\ op = "decode"
     /\ root # nullptr
     /\ ~decode(nodes, root, calls["decode"]).ub
     /\ \E b \in Range(calls["decode"]) : b \notin {"0", "1"})
        => outcome = "InvalidBit"

\* ------------------------------------------------------ node ownership
\* The nodes reachable from node n by left and right links.
RECURSIVE Reachable(_, _)
Reachable(st, n) ==
    IF n = nullptr THEN {}
    ELSE {n} \cup Reachable(st, st[n].left) \cup Reachable(st, st[n].right)

\* No HuffmanNode is ever deleted: every node of the store is allocated.
Allocated == 1..Len(nodes)

\* C12: tree release on rebuild.  After any sequence of buildTree calls the
\* allocated HuffmanNodes are exactly the nodes reachable from the current
\* root: the nodes of the tree before are released when the new root is set.
C12_TreeReleased ==
    Allocated = Reachable(nodes, root)

\* --------------------------------------------------- frequency counting
Occurrences(s, c) == Cardinality({i \in 1..Len(s) : s[i] = c})

FirstIndex(s, c) == CHOOSE i \in 1..Len(s) : s[i] = c /\ \A j \in 1..(i - 1) : s[j] # c

\* C13: frequency counting.  MakeTable on an empty table with a non-empty
\* string leaves one entry per distinct symbol of the string, each with the
\* number of the symbol's occurrences as its count (the counts sum to the
\* length of the string), in the order of the symbols' first occurrences.
C13_FrequencyCounting ==
    ("MakeTable" \in DOMAIN calls /\ calls["MakeTable"] # <<>>) =>
        LET s == calls["MakeTable"]
        IN  /\ {head[i].Character : i \in 1..Len(head)} = Range(s)
            /\ Len(head) = Cardinality(Range(s))
            /\ \A i \in 1..Len(head) : head[i].freq = Occurrences(s, head[i].Character)
            /\ SumCounts(head) = Len(s)
            /\ \A i \in 1..Len(head) : \A j \in 1..Len(head) :
                 i < j => FirstIndex(s, head[i].Character) < FirstIndex(s, head[j].Character)

C13_Witness ==
    /\ op = "MakeTable"
    /\ Len(head) = 3
    /\ head[1].Character = "c"
    /\ head[2].freq = 2
    /\ Len(calls["MakeTable"]) = 4

\* --------------------------------------------------------- repeated runs
\* C14: repeated runs.  In every option-1 run of the menu loop the frequency
\* table is the table of that run's input and the decoded string is that
\* input.  (Stated for inputs of two or more distinct symbols, the inputs
\* whose round trip works in a first run.)
C14_RunsIndependent ==
    (pc = "step5" /\ Cardinality(Range(myString)) >= 2) =>
        /\ head = ScanString(<<>>, myString, 1)
        /\ decoded = myString

====
